---- MODULE Spec2Model ----
(***************************************************************************)
(* Match checking of librustc_mir/hair/pattern/check_match.rs: the driver  *)
(* (MatchVisitor::check_match, check_arms, check_exhaustive), the          *)
(* syntactic legality passes and the diagnostics they emit.                *)
(*                                                                         *)
(* The usefulness engine (_match::is_useful), pattern lowering and the     *)
(* inhabitedness query live outside check_match.rs; they are modelled from *)
(* the specification text (sections 3, 4.1, 4.2, 6).                       *)
(***************************************************************************)
EXTENDS Integers, Sequences, FiniteSets, TLC

(***************************************************************************)
(* Bounds of the model.                                                    *)
(***************************************************************************)
\* Largest number of witnesses handed to the report of check_exhaustive.
MaxWitnesses == 5
\* Largest number of patterns (summed over the arms) of one match.
MaxPats == 3
\* Largest number of patterns of one match whose arms carry by-move and
\* by-reference bindings, `@` bindings, guards with effects or paths that do
\* not lower.
MaxLegalPats == 2
\* Largest number of match expressions in one function body.
MaxMatches == 2

(***************************************************************************)
(* Generic helpers.                                                        *)
(***************************************************************************)
Range(s) == {s[i] : i \in 1..Len(s)}

RECURSIVE Concat(_)
Concat(ss) == IF ss = <<>> THEN <<>> ELSE Head(ss) \o Concat(Tail(ss))

SeqsUpTo(S, n) == UNION {[1..k -> S] : k \in 0..n}

(***************************************************************************)
(* Types (rustc::ty::Ty as far as the checks query it): an ADT with its    *)
(* ordered variants, a tuple, a reference or the never type.  `variants`   *)
(* lists, per constructor, the types of its fields; `did` names the ADT    *)
(* definition, `local` is def.did.is_local() and `ne` is                   *)
(* def.is_variant_list_non_exhaustive().                                   *)
(***************************************************************************)
Adt(did, vs, local, ne) ==
    [kind |-> "Adt", did |-> did, variants |-> vs, local |-> local, ne |-> ne]
TupleTy(fs) == [kind |-> "Tuple", did |-> "", variants |-> <<fs>>, local |-> TRUE, ne |-> FALSE]
RefTy(t) == [kind |-> "Ref", did |-> "", variants |-> << <<t>> >>, local |-> TRUE, ne |-> FALSE]
NeverTy == [kind |-> "Never", did |-> "", variants |-> <<>>, local |-> TRUE, ne |-> FALSE]

\* enum Void {}
Void(local, ne) == Adt("Void", <<>>, local, ne)
\* enum Flag { F, T }
Flag == Adt("Flag", << <<>>, <<>> >>, TRUE, FALSE)
\* enum One { V }
One(local, ne) == Adt("One", << <<>> >>, local, ne)
\* enum Wrap { W(Void) }: one variant, no value
Wrap == Adt("Wrap", << <<Void(TRUE, FALSE)>> >>, TRUE, FALSE)
\* enum Opt { N, S(Flag) }
Opt(local, ne) == Adt("Opt", << <<>>, <<Flag>> >>, local, ne)
\* enum Tri { A, B, C }
Tri == Adt("Tri", << <<>>, <<>>, <<>> >>, TRUE, FALSE)
\* (Flag, Flag)
Pair == TupleTy(<<Flag, Flag>>)
\* &Flag
RefFlag == RefTy(Flag)

(***************************************************************************)
(* Lowered patterns (hair::pattern::Pattern).  `ctor` is the index of the  *)
(* constructor in the type's `variants` (0 when the kind has none).        *)
(***************************************************************************)
PWild(ty) == [kind |-> "Wild", ty |-> ty, ctor |-> 0, sub |-> <<>>]
PBinding(ty, sub) == [kind |-> "Binding", ty |-> ty, ctor |-> 0, sub |-> sub]
PVariant(ty, c, sub) == [kind |-> "Variant", ty |-> ty, ctor |-> c, sub |-> sub]
PLeaf(ty, sub) == [kind |-> "Leaf", ty |-> ty, ctor |-> 1, sub |-> sub]
PDeref(ty, sub) == [kind |-> "Deref", ty |-> ty, ctor |-> 1, sub |-> sub]
POr(ty, pats) == [kind |-> "Or", ty |-> ty, ctor |-> 0, sub |-> pats]
PAscribe(ty, sub) == [kind |-> "AscribeUserType", ty |-> ty, ctor |-> 0, sub |-> sub]

(***************************************************************************)
(* Constructor abstraction (specification 4.1).                            *)
(***************************************************************************)
\* A binding is transparent for usefulness: it behaves as its sub-pattern,
\* or as a wildcard when it has none (specification 3).
RECURSIVE Strip(_)
Strip(p) ==
    IF p.kind = "Binding"
    THEN IF p.sub = <<>> THEN PWild(p.ty) ELSE Strip(p.sub[1])
    ELSE p

\* all_constructors(type): the finite constructor set of the type ...
AllCtors(ty) == 1..Len(ty.variants)
\* ... which a non-exhaustive enum of another crate extends by an implicit
\* unnamed constructor, so that it is never complete.
OpenEnded(ty) == ty.kind = "Adt" /\ ty.ne /\ ~ty.local

\* wildcards_for(type, constructor): one wildcard per declared field.
WildFields(ty, c) == [i \in 1..Len(ty.variants[c]) |-> PWild(ty.variants[c][i])]

\* Re-wrap a constructor and its sub-patterns into a pattern of the type.
MkPat(ty, c, sub) ==
    IF ty.kind = "Adt" THEN PVariant(ty, c, sub)
    ELSE IF ty.kind = "Tuple" THEN PLeaf(ty, sub)
    ELSE PDeref(ty, sub)

\* The constructors present in the head column of a matrix.
UsedCtors(m) ==
    {Strip(m[i][1]).ctor : i \in {j \in 1..Len(m) : Strip(m[j][1]).kind # "Wild"}}

\* Specialization of one row by constructor c: the head is replaced by its
\* sub-patterns; a row whose head constructor disagrees is dropped.
SpecializeRow(row, ty, c) ==
    LET h == Strip(row[1])
    IN  IF h.kind = "Wild" THEN << WildFields(ty, c) \o Tail(row) >>
        ELSE IF h.ctor = c THEN << h.sub \o Tail(row) >>
        ELSE <<>>

Specialize(m, ty, c) == Concat([i \in 1..Len(m) |-> SpecializeRow(m[i], ty, c)])

\* Specialization by the synthetic wildcard constructor: only the rows with
\* a wildcard head contribute, by their remaining columns.
DefaultMatrix(m) ==
    Concat([i \in 1..Len(m) |->
              IF Strip(m[i][1]).kind = "Wild" THEN <<Tail(m[i])>> ELSE <<>>])

(***************************************************************************)
(* Usefulness engine (specification 4.2).  A verdict is NotUseful, Useful  *)
(* (witness left out) or UsefulWithWitness with its witness rows.          *)
(***************************************************************************)
NotUseful == [u |-> "NotUseful", w |-> <<>>]
Useful == [u |-> "Useful", w |-> <<>>]
UsefulWithWitness(ws) == [u |-> "UsefulWithWitness", w |-> ws]

\* Zero columns: useful iff the matrix has zero rows; the witness is the
\* empty row.
ZeroColumns(m, wp) ==
    IF m = <<>>
    THEN IF wp = "ConstructWitness" THEN UsefulWithWitness(<< <<>> >>) ELSE Useful
    ELSE NotUseful

\* Re-wrap each witness with constructor c applied to its sub-witness.
ApplyCtor(r, ty, c) ==
    LET a == Len(ty.variants[c])
    IN  [r EXCEPT !.w = [i \in 1..Len(r.w) |->
            <<MkPat(ty, c, SubSeq(r.w[i], 1, a))>> \o SubSeq(r.w[i], a + 1, Len(r.w[i]))]]

\* Prepend the witness head for an incomplete head column: the first missing
\* variant, or a wildcard when no named constructor is missing.
ApplyMissing(r, ty, missing) ==
    LET hd == IF missing = {} THEN PWild(ty)
              ELSE LET c == CHOOSE x \in missing : \A y \in missing : x <= y
                   IN  MkPat(ty, c, WildFields(ty, c))
    IN  [r EXCEPT !.w = [i \in 1..Len(r.w) |-> <<hd>> \o r.w[i]]]

\* Aggregate two verdicts: useful if useful under any constructor, the
\* witnesses unioned.
JoinVerdict(a, b) ==
    IF a.u = "NotUseful" THEN b
    ELSE IF b.u = "NotUseful" THEN a
    ELSE [u |-> a.u, w |-> a.w \o b.w]

RECURSIVE is_useful(_, _, _)
RECURSIVE UsefulOverCtors(_, _, _, _, _)

\* The candidate's wildcard head against a complete constructor set: try the
\* constructors c..n in turn and aggregate.
UsefulOverCtors(m, v, wp, ty, c) ==
    IF c > Len(ty.variants) THEN NotUseful
    ELSE JoinVerdict(
           ApplyCtor(is_useful(Specialize(m, ty, c),
                               WildFields(ty, c) \o Tail(v), wp), ty, c),
           UsefulOverCtors(m, v, wp, ty, c + 1))

is_useful(m, v, wp) ==
    IF v = <<>> THEN ZeroColumns(m, wp)
    ELSE
      LET h == Strip(v[1])
          ty == h.ty
      IN  IF h.kind # "Wild"
          THEN ApplyCtor(is_useful(Specialize(m, ty, h.ctor), h.sub \o Tail(v), wp),
                         ty, h.ctor)
          ELSE
            LET missing == AllCtors(ty) \ UsedCtors(m)
            IN  IF missing = {} /\ ~OpenEnded(ty)
                THEN UsefulOverCtors(m, v, wp, ty, 1)
                ELSE ApplyMissing(is_useful(DefaultMatrix(m), Tail(v), wp), ty, missing)

(***************************************************************************)
(* Source patterns (hir::Pat) with what the type tables record of them.    *)
(*   node : Wild | Binding | Ref | Tuple | Path | TupleStruct              *)
(*   bm   : binding mode of a Binding: "value" (by value, immutable),      *)
(*          "value_mut" (by value, mutable), "ref"; "" otherwise           *)
(*   copy : the type of the binding is Copy                                *)
(*   nm   : index of the unit variant of the binding's enum type whose     *)
(*          name the binding's identifier equals (0: none)                 *)
(*   res  : what a Path resolves to: Variant | Static | AssocConst; ""     *)
(*   vi   : variant index of a Path / TupleStruct (0 otherwise)            *)
(*   sub  : the sub-patterns, in source order                              *)
(* The span of a node is the arm index, the index of the pattern in the    *)
(* arm and the path from the pattern's root to the node.                   *)
(***************************************************************************)
HWild == [node |-> "Wild", bm |-> "", copy |-> FALSE, nm |-> 0, res |-> "", vi |-> 0, sub |-> <<>>]
HBind(bm, copy, nm, sub) ==
    [node |-> "Binding", bm |-> bm, copy |-> copy, nm |-> nm, res |-> "", vi |-> 0, sub |-> sub]
HRef(s) == [node |-> "Ref", bm |-> "", copy |-> FALSE, nm |-> 0, res |-> "", vi |-> 0, sub |-> <<s>>]
HTuple(ss) == [node |-> "Tuple", bm |-> "", copy |-> FALSE, nm |-> 0, res |-> "", vi |-> 0, sub |-> ss]
HPath(res, vi) == [node |-> "Path", bm |-> "", copy |-> FALSE, nm |-> 0, res |-> res, vi |-> vi, sub |-> <<>>]
HTupleStruct(vi, ss) ==
    [node |-> "TupleStruct", bm |-> "", copy |-> FALSE, nm |-> 0, res |-> "Variant", vi |-> vi, sub |-> ss]

\* The types of the sub-patterns of a pattern of type ty.
ChildTys(pat, ty) ==
    IF pat.node = "Binding" THEN [i \in 1..Len(pat.sub) |-> ty]
    ELSE IF pat.node \in {"Ref", "Tuple"} THEN ty.variants[1]
    ELSE IF pat.node = "TupleStruct" THEN ty.variants[pat.vi]
    ELSE <<>>

\* Pat::walk: the nodes of a pattern in pre-order, each with its span and
\* its type.
RECURSIVE Walk(_, _, _)
Walk(pat, span, ty) ==
    <<[pat |-> pat, span |-> span, ty |-> ty]>> \o
    Concat([i \in 1..Len(pat.sub) |->
              Walk(pat.sub[i], Append(span, i), ChildTys(pat, ty)[i])])

\* Pat::walk without the types: the nodes in pre-order with their spans.
RECURSIVE Nodes(_, _)
Nodes(pat, span) ==
    <<[pat |-> pat, span |-> span]>> \o
    Concat([i \in 1..Len(pat.sub) |-> Nodes(pat.sub[i], Append(span, i))])

\* Pat::contains_bindings
contains_bindings(pat) ==
    LET w == Nodes(pat, <<>>)
    IN  \E i \in 1..Len(w) : w[i].pat.node = "Binding"

(***************************************************************************)
(* Lowering (PatternContext::lower_pattern followed by expand_pattern).    *)
(* A path to a static or an associated const does not lower: the error is  *)
(* recorded and a wildcard stands in for the pattern.                      *)
(***************************************************************************)
RECURSIVE lower_pattern(_, _)
lower_pattern(pat, ty) ==
    LET subs == [i \in 1..Len(pat.sub) |-> lower_pattern(pat.sub[i], ChildTys(pat, ty)[i])]
    IN  IF pat.node = "Wild" THEN PWild(ty)
        ELSE IF pat.node = "Binding" THEN PBinding(ty, subs)
        ELSE IF pat.node = "Ref" THEN PDeref(ty, subs)
        ELSE IF pat.node = "Tuple" THEN PLeaf(ty, subs)
        ELSE IF pat.node = "TupleStruct" THEN PVariant(ty, pat.vi, subs)
        ELSE IF pat.res = "Variant" THEN PVariant(ty, pat.vi, <<>>)
        ELSE PWild(ty)

\* patcx.errors after lowering the pattern: one PatternError per node that
\* did not lower, in pre-order.
LoweringErrors(pat) ==
    LET w == Nodes(pat, <<>>)
    IN  Concat([i \in 1..Len(w) |->
                  IF w[i].pat.node = "Path" /\ w[i].pat.res = "Static"
                  THEN <<[err |-> "StaticInPattern", span |-> w[i].span]>>
                  ELSE IF w[i].pat.node = "Path" /\ w[i].pat.res = "AssocConst"
                  THEN <<[err |-> "AssocConstInPattern", span |-> w[i].span]>>
                  ELSE <<>>])

(***************************************************************************)
(* Diagnostics: the code, the primary span(s), the message and the         *)
(* secondary labelled spans, in the order they are emitted; for E0004      *)
(* also what the message names: the witnesses shown, the number of         *)
(* witnesses left out, the variant idents.                                 *)
(***************************************************************************)
Diag(code, spans, msg, labels) ==
    [code |-> code, spans |-> spans, msg |-> msg, labels |-> labels,
     joined |-> <<>>, variants |-> <<>>]
Label(span, text) == [span |-> span, text |-> text]

\* Spans that are not pattern nodes.
ScrutSpan == <<0>>
DefSpan == <<0, 0>>
VariantSpan(vi) == <<0, 0, vi>>
DUMMY_SP == <<>>

\* PatternContext::report_inlining_errors
report_inlining_errors(errors, base) ==
    [i \in 1..Len(errors) |->
        IF errors[i].err = "StaticInPattern"
        THEN Diag("E0158", <<base \o errors[i].span>>,
                  "statics cannot be referenced in patterns", <<>>)
        ELSE Diag("E0158", <<base \o errors[i].span>>,
                  "associated consts cannot be referenced in patterns", <<>>)]

(***************************************************************************)
(* Syntactic legality checks.  An arm is [pats, guard]: its source         *)
(* patterns and its guard, <<>> for none or <<effects>> with the           *)
(* use-effects ExprUseVisitor reports while walking the guard expression.  *)
(***************************************************************************)
\* The nodes of all patterns of a group in visiting order, spans prefixed by
\* the arm index and the pattern index.
GroupWalk(a, pats) ==
    Concat([j \in 1..Len(pats) |-> Nodes(pats[j], <<a, j>>)])

\* by_ref_span after the first loop of check_legality_of_move_bindings: the
\* span of the last by-reference binding visited, <<>> for None.
ByRefSpan(w) ==
    LET refs == {i \in 1..Len(w) : w[i].pat.node = "Binding" /\ w[i].pat.bm = "ref"}
    IN  IF refs = {} THEN <<>>
        ELSE <<w[CHOOSE i \in refs : \A k \in refs : k <= i].span>>

\* The by-value bindings of a non-Copy type, for which check_move is called.
IsMove(n) == n.pat.node = "Binding" /\ n.pat.bm \in {"value", "value_mut"} /\ ~n.pat.copy

\* Mutant: the arm with a guard is not told apart.
check_move_NoGuard(n, has_guard, by_ref_span, bind_by_move) ==
    IF \E k \in 1..Len(n.pat.sub) : contains_bindings(n.pat.sub[k])
    THEN [diags |-> <<Diag("E0007", <<n.span>>, "cannot bind by-move with sub-bindings",
                          <<Label(n.span, "binds an already bound by-move value by moving it")>>)>>,
          push |-> <<>>]
    ELSE IF by_ref_span # <<>>
    THEN [diags |-> <<>>, push |-> <<n.span>>]
    ELSE [diags |-> <<>>, push |-> <<>>]

\* The closure check_move on one binding node: the diagnostic it emits and
\* the span it pushes on span_vec.
check_move(n, has_guard, by_ref_span, bind_by_move) ==
    IF \E k \in 1..Len(n.pat.sub) : contains_bindings(n.pat.sub[k])
    THEN [diags |-> <<Diag("E0007", <<n.span>>, "cannot bind by-move with sub-bindings",
                          <<Label(n.span, "binds an already bound by-move value by moving it")>>)>>,
          push |-> <<>>]
    ELSE IF has_guard
    THEN [diags |-> IF ~bind_by_move
                    THEN <<Diag("E0008", <<n.span>>, "cannot bind by-move into a pattern guard",
                                <<Label(n.span, "moves value into pattern guard")>>)>>
                    ELSE <<>>,
          push |-> <<>>]
    ELSE IF by_ref_span # <<>>
    THEN [diags |-> <<>>, push |-> <<n.span>>]
    ELSE [diags |-> <<>>, push |-> <<>>]

check_legality_of_move_bindings(a, has_guard, pats, bind_by_move) ==
    LET w == GroupWalk(a, pats)
        by_ref_span == ByRefSpan(w)
        moves == [i \in 1..Len(w) |->
                    IF IsMove(w[i]) THEN check_move(w[i], has_guard, by_ref_span, bind_by_move)
                    ELSE [diags |-> <<>>, push |-> <<>>]]
        span_vec == Concat([i \in 1..Len(w) |-> moves[i].push])
    IN  Concat([i \in 1..Len(w) |-> moves[i].diags]) \o
        (IF span_vec # <<>>
         THEN <<Diag("E0009", span_vec, "cannot bind by-move and by-ref in the same pattern",
                     (IF by_ref_span # <<>>
                      THEN <<Label(by_ref_span[1], "both by-ref and by-move used")>>
                      ELSE <<>>) \o
                     [i \in 1..Len(span_vec) |-> Label(span_vec[i], "by-move pattern here")])>>
         ELSE <<>>)

\* AtBindingPatternVisitor::visit_pat on a pattern, entered with the flag
\* bindings_allowed: the diagnostics emitted and the flag on return.
RECURSIVE visit_pat(_, _, _)
RECURSIVE walk_pat(_, _, _, _)
\* Mutant: the flag is not restored on leaving the sub-pattern of a binding.
visit_pat_NoRestore(pat, span, allowed) ==
    IF pat.node = "Binding"
    THEN LET d == IF ~allowed
                  THEN <<Diag("E0303", <<span>>, "pattern bindings are not allowed after an @",
                              <<Label(span, "not allowed after @")>>)>>
                  ELSE <<>>
         IN  IF pat.sub # <<>>
             THEN LET r == walk_pat(pat, span, 1, FALSE)
                  IN  [diags |-> d \o r.diags, allowed |-> FALSE]
             ELSE [diags |-> d, allowed |-> allowed]
    ELSE walk_pat(pat, span, 1, allowed)

\* intravisit::walk_pat: visit the sub-patterns k.. in order.
walk_pat(pat, span, k, allowed) ==
    IF k > Len(pat.sub) THEN [diags |-> <<>>, allowed |-> allowed]
    ELSE LET r1 == visit_pat(pat.sub[k], Append(span, k), allowed)
             r2 == walk_pat(pat, span, k + 1, r1.allowed)
         IN  [diags |-> r1.diags \o r2.diags, allowed |-> r2.allowed]

visit_pat(pat, span, allowed) ==
    IF pat.node = "Binding"
    THEN LET d == IF ~allowed
                  THEN <<Diag("E0303", <<span>>, "pattern bindings are not allowed after an @",
                              <<Label(span, "not allowed after @")>>)>>
                  ELSE <<>>
         IN  IF pat.sub # <<>>
             THEN LET bindings_were_allowed == allowed
                      r == walk_pat(pat, span, 1, FALSE)
                  IN  [diags |-> d \o r.diags, allowed |-> bindings_were_allowed]
             ELSE [diags |-> d, allowed |-> allowed]
    ELSE walk_pat(pat, span, 1, allowed)

check_legality_of_bindings_in_at_patterns(pat, span) == visit_pat(pat, span, TRUE).diags

\* MatchVisitor::check_patterns
check_patterns(a, has_guard, pats, bind_by_move) ==
    check_legality_of_move_bindings(a, has_guard, pats, bind_by_move) \o
    Concat([j \in 1..Len(pats) |-> check_legality_of_bindings_in_at_patterns(pats[j], <<a, j>>)])

\* Mutant: an update in place is let through.
MutationChecker_JustWrite(effect) ==
    IF effect = "MutBorrow"
    THEN <<Diag("E0301", <<ScrutSpan>>, "cannot mutably borrow in a pattern guard", <<>>)>>
    ELSE IF effect = "JustWrite"
    THEN <<Diag("E0302", <<ScrutSpan>>, "cannot assign in a pattern guard", <<>>)>>
    ELSE <<>>

\* MutationChecker: the Delegate callbacks on one use-effect of the guard.
MutationChecker(effect) ==
    IF effect = "MutBorrow"
    THEN <<Diag("E0301", <<ScrutSpan>>, "cannot mutably borrow in a pattern guard", <<>>)>>
    ELSE IF effect \in {"JustWrite", "WriteAndRead"}
    THEN <<Diag("E0302", <<ScrutSpan>>, "cannot assign in a pattern guard", <<>>)>>
    ELSE <<>>

check_for_mutation_in_guard(guard) ==
    Concat([i \in 1..Len(guard[1]) |-> MutationChecker(guard[1][i])])

check_for_bindings_named_same_as_variants(pat, span, ty) ==
    LET w == Walk(pat, span, ty)
    IN  Concat([i \in 1..Len(w) |->
                  IF /\ w[i].pat.node = "Binding" /\ w[i].pat.sub = <<>>
                     /\ w[i].pat.bm = "value"
                     /\ w[i].ty.kind = "Adt"
                     /\ w[i].pat.nm \in 1..Len(w[i].ty.variants)
                     /\ w[i].ty.variants[w[i].pat.nm] = <<>>
                  THEN <<Diag("E0170", <<w[i].span>>, "pattern binding is named the same as one of the variants", <<>>)>>
                  ELSE <<>>])

\* Mutant: a wildcard counts as a catch-all.
RECURSIVE pat_is_catchall_Wild(_)
pat_is_catchall_Wild(pat) ==
    IF pat.node = "Wild" THEN TRUE
    ELSE IF pat.node = "Binding" /\ pat.sub = <<>> THEN TRUE
    ELSE IF pat.node = "Binding" THEN pat_is_catchall_Wild(pat.sub[1])
    ELSE IF pat.node = "Ref" THEN pat_is_catchall_Wild(pat.sub[1])
    ELSE IF pat.node = "Tuple" THEN \A i \in 1..Len(pat.sub) : pat_is_catchall_Wild(pat.sub[i])
    ELSE FALSE

\* Checks for common cases of "catchall" patterns that may not be intended
\* as such.
RECURSIVE pat_is_catchall(_)
pat_is_catchall(pat) ==
    IF pat.node = "Binding" /\ pat.sub = <<>> THEN TRUE
    ELSE IF pat.node = "Binding" THEN pat_is_catchall(pat.sub[1])
    ELSE IF pat.node = "Ref" THEN pat_is_catchall(pat.sub[1])
    ELSE IF pat.node = "Tuple" THEN \A i \in 1..Len(pat.sub) : pat_is_catchall(pat.sub[i])
    ELSE FALSE

(***************************************************************************)
(* check_arms.  Its locals are the record                                  *)
(*   [seen, catchall, i, j, diags, tests]                                  *)
(* with (i, j) the arm and the pattern the loops are at, catchall <<>> for *)
(* None, and `tests` the history of the usefulness tests made so far: the  *)
(* pattern's position, the matrix it was tested against and the verdict.   *)
(* An inlined arm is [pats, guard] with pats the pairs (pattern, hir_pat). *)
(***************************************************************************)
CheckArmsInit ==
    [seen |-> <<>>, catchall |-> <<>>, i |-> 1, j |-> 1, diags |-> <<>>, tests |-> <<>>]

\* The diagnostic of a NotUseful verdict, selected by the match's origin.
UnreachableDiag(source, arm_index, span, catchall) ==
    IF source \in {"IfDesugar", "WhileDesugar"}
    THEN <<Diag("bug", <<span>>, "bug!()", <<>>)>>
    ELSE IF source = "IfLetDesugar"
    THEN <<Diag("irrefutable_let_patterns", <<span>>, "irrefutable if-let pattern", <<>>)>>
    ELSE IF source = "WhileLetDesugar"
    THEN IF arm_index = 0
         THEN <<Diag("unreachable_patterns", <<span>>, "unreachable pattern", <<>>)>>
         ELSE IF arm_index = 1
         THEN <<Diag("irrefutable_let_patterns", <<span>>,
                     "irrefutable while-let pattern", <<>>)>>
         ELSE <<Diag("bug", <<span>>, "bug!()", <<>>)>>
    ELSE IF source \in {"ForLoopDesugar", "Normal"}
    THEN <<Diag("unreachable_patterns", <<span>>, "unreachable pattern",
                IF catchall # <<>>
                THEN <<Label(span, "unreachable pattern"),
                       Label(catchall[1], "matches any value")>>
                ELSE <<>>)>>
    ELSE <<>>

\* Mutant: the pattern is pushed whether or not the arm has a guard.
PushSeen_Always(seen, v, guard) == Append(seen, v)

\* Mutant: the test of the guard is inverted.
PushSeen_Guarded(seen, v, guard) == IF guard # <<>> THEN Append(seen, v) ELSE seen

\* The rows check_arms pushes for a tested pattern: the pattern itself when
\* the arm has no guard.
PushSeen(seen, v, guard) == IF guard = <<>> THEN Append(seen, v) ELSE seen

\* Mutant: a later catch-all replaces the one recorded.
NextCatchall_Last(catchall, guard, hir_pat, span) ==
    IF guard = <<>> /\ pat_is_catchall(hir_pat) THEN <<span>> ELSE catchall

\* The catch-all span after a tested pattern of a guard-free arm.
NextCatchall(catchall, guard, hir_pat, span) ==
    IF guard = <<>> /\ catchall = <<>> /\ pat_is_catchall(hir_pat) THEN <<span>> ELSE catchall

\* Whether both loops of check_arms have run out.
CheckArmsDone(st, arms) == st.i > Len(arms)

\* Move (i, j) to the next pattern, skipping to the next arm at the end of
\* an arm (an arm has at least one pattern).
NextPos(st, arms) ==
    IF st.j < Len(arms[st.i].pats) THEN <<st.i, st.j + 1>> ELSE <<st.i + 1, 1>>

\* Mutant: the pattern is pushed before it is tested.
CheckArmsStep_PushFirst(st, arms, source) ==
    LET arm == arms[st.i]
        pat == arm.pats[st.j][1]
        hir_pat == arm.pats[st.j][2]
        span == <<st.i, st.j>>
        v == <<pat>>
        pushed == PushSeen(st.seen, v, arm.guard)
        r == is_useful(pushed, v, "LeaveOutWitness")
        d == IF r.u = "NotUseful" THEN UnreachableDiag(source, st.i - 1, span, st.catchall)
             ELSE <<>>
        nxt == NextPos(st, arms)
    IN  [seen |-> pushed,
         catchall |-> NextCatchall(st.catchall, arm.guard, hir_pat, span),
         i |-> nxt[1], j |-> nxt[2],
         diags |-> st.diags \o d,
         tests |-> Append(st.tests, [i |-> st.i, j |-> st.j, seen |-> pushed, u |-> r.u])]

\* Mutant: the pattern is tested against the patterns of all other
\* guard-free arms, those that follow it included.
CheckArmsStep_AllRows(st, arms, source) ==
    LET arm == arms[st.i]
        pat == arm.pats[st.j][1]
        hir_pat == arm.pats[st.j][2]
        span == <<st.i, st.j>>
        v == <<pat>>
        others == Concat([a \in 1..Len(arms) |->
                     IF arms[a].guard = <<>> /\ a # st.i
                     THEN [j \in 1..Len(arms[a].pats) |-> <<arms[a].pats[j][1]>>]
                     ELSE <<>>])
        r == is_useful(others, v, "LeaveOutWitness")
        d == IF r.u = "NotUseful" THEN UnreachableDiag(source, st.i - 1, span, st.catchall)
             ELSE <<>>
        nxt == NextPos(st, arms)
    IN  [seen |-> PushSeen(st.seen, v, arm.guard),
         catchall |-> NextCatchall(st.catchall, arm.guard, hir_pat, span),
         i |-> nxt[1], j |-> nxt[2],
         diags |-> st.diags \o d,
         tests |-> Append(st.tests, [i |-> st.i, j |-> st.j, seen |-> st.seen, u |-> r.u])]

\* One iteration of the inner loop of check_arms.
CheckArmsStep(st, arms, source) ==
    LET arm == arms[st.i]
        pat == arm.pats[st.j][1]
        hir_pat == arm.pats[st.j][2]
        span == <<st.i, st.j>>
        v == <<pat>>
        r == is_useful(st.seen, v, "LeaveOutWitness")
        d == IF r.u = "NotUseful" THEN UnreachableDiag(source, st.i - 1, span, st.catchall)
             ELSE IF r.u = "Useful" THEN <<>>
             ELSE <<Diag("bug", <<span>>, "bug!()", <<>>)>>
        nxt == NextPos(st, arms)
    IN  [seen |-> PushSeen(st.seen, v, arm.guard),
         catchall |-> NextCatchall(st.catchall, arm.guard, hir_pat, span),
         i |-> nxt[1], j |-> nxt[2],
         diags |-> st.diags \o d,
         tests |-> Append(st.tests, [i |-> st.i, j |-> st.j, seen |-> st.seen, u |-> r.u])]

(***************************************************************************)
(* Exhaustiveness.                                                         *)
(***************************************************************************)
\* Mutant: the candidate is the first constructor of the type, not a
\* wildcard.
WildCandidate_FirstCtor(ty) ==
    IF ty.variants = <<>> THEN <<PWild(ty)>> ELSE <<MkPat(ty, 1, WildFields(ty, 1))>>

\* The candidate row of check_not_useful: one wildcard of the type.
WildCandidate(ty) == <<PWild(ty)>>

\* Ok(()) is <<>>; Err((pats, wild_pattern)) is <<pats>>.
check_not_useful(ty, matrix) ==
    LET r == is_useful(matrix, WildCandidate(ty), "ConstructWitness")
    IN  IF r.u = "NotUseful" THEN [ok |-> TRUE, pats |-> <<>>, bug |-> FALSE]
        ELSE IF r.u = "UsefulWithWitness" THEN [ok |-> FALSE, pats |-> r.w, bug |-> FALSE]
        ELSE [ok |-> FALSE, pats |-> <<>>, bug |-> TRUE]

LIMIT == 3

\* A string is the sequence of its pieces: the literal pieces of a format
\* string, a pattern rendered by Display, a number rendered by Display.
\* In the literal pieces ' stands for the backquote.
Lit(str) == [kind |-> "lit", lit |-> str, pat |-> PWild(NeverTy), num |-> 0]
Shown(w) == [kind |-> "pat", lit |-> "", pat |-> w, num |-> 0]
Num(n) == [kind |-> "num", lit |-> "", pat |-> PWild(NeverTy), num |-> n]

\* head.join(sep), head the patterns rendered one by one.
RECURSIVE Join(_, _)
Join(head, sep) ==
    IF head = <<>> THEN <<>>
    ELSE IF Len(head) = 1 THEN <<Shown(head[1])>>
    ELSE <<Shown(head[1]), Lit(sep)>> \o Join(Tail(head), sep)

\* Mutant: the number of all witnesses is given, not that of the tail.
joined_uncovered_patterns_CountAll(witnesses) ==
    IF Len(witnesses) = 0 THEN <<Lit("bug!()")>>
    ELSE IF Len(witnesses) = 1 THEN <<Lit("'"), Shown(witnesses[1]), Lit("'")>>
    ELSE IF Len(witnesses) <= LIMIT
    THEN LET head == SubSeq(witnesses, 1, Len(witnesses) - 1)
             tail == witnesses[Len(witnesses)]
         IN  <<Lit("'")>> \o Join(head, "', '") \o <<Lit("' and '"), Shown(tail), Lit("'")>>
    ELSE LET head == SubSeq(witnesses, 1, LIMIT)
         IN  <<Lit("'")>> \o Join(head, "', '") \o
             <<Lit("' and "), Num(Len(witnesses)), Lit(" more")>>

\* joined_uncovered_patterns: the string it formats.
joined_uncovered_patterns(witnesses) ==
    IF Len(witnesses) = 0 THEN <<Lit("bug!()")>>
    ELSE IF Len(witnesses) = 1 THEN <<Lit("'"), Shown(witnesses[1]), Lit("'")>>
    ELSE IF Len(witnesses) <= LIMIT
    THEN LET head == SubSeq(witnesses, 1, Len(witnesses) - 1)
             tail == witnesses[Len(witnesses)]
         IN  <<Lit("'")>> \o Join(head, "', '") \o <<Lit("' and '"), Shown(tail), Lit("'")>>
    ELSE LET head == SubSeq(witnesses, 1, LIMIT)
             tail == SubSeq(witnesses, LIMIT + 1, Len(witnesses))
         IN  <<Lit("'")>> \o Join(head, "', '") \o
             <<Lit("' and "), Num(Len(tail)), Lit(" more")>>

\* Ty::peel_refs
RECURSIVE peel_refs(_)
peel_refs(ty) == IF ty.kind = "Ref" THEN peel_refs(ty.variants[1][1]) ELSE ty

adt_defined_here(ty) ==
    IF ty.kind = "Adt" /\ ty.local THEN <<Label(DefSpan, "defined here")>> ELSE <<>>

\* maybe_point_at_variant: `covered` after the loop over patterns k.. .
RECURSIVE PointAt(_, _, _, _)
PointAt(ty, patterns, k, covered) ==
    IF k > Len(patterns) THEN covered
    ELSE
      LET pt == patterns[k]
      IN  IF pt.kind \in {"AscribeUserType", "Deref"}
          THEN PointAt(ty, patterns, k + 1, covered \o PointAt(ty, pt.sub, 1, <<>>))
          ELSE IF pt.kind = "Variant" /\ pt.ty.did = ty.did
          THEN LET sp == VariantSpan(pt.ctor)
               IN  IF sp \in Range(covered)
                   THEN PointAt(ty, patterns, k + 1, covered)
                   ELSE PointAt(ty, patterns, k + 1,
                                Append(covered, sp) \o PointAt(ty, pt.sub, 1, <<>>))
          ELSE IF pt.kind \in {"Leaf", "Or"}
          THEN PointAt(ty, patterns, k + 1, covered \o PointAt(ty, pt.sub, 1, <<>>))
          ELSE PointAt(ty, patterns, k + 1, covered)

maybe_point_at_variant(ty, patterns) ==
    IF ty.kind = "Adt" THEN PointAt(ty, patterns, 1, <<>>) ELSE <<>>

\* check_exhaustive from joined_uncovered_patterns on: the E0004 diagnostic
\* for the witnesses.
ReportUncovered(scrut_ty, sp, witnesses) ==
    LET joined_patterns == joined_uncovered_patterns(witnesses)
        ty == peel_refs(scrut_ty)
    IN  [Diag("E0004", <<sp>>, "non-exhaustive patterns: not covered",
              <<Label(sp, IF Len(witnesses) = 1 THEN "pattern not covered"
                          ELSE "patterns not covered")>> \o
              adt_defined_here(ty) \o
              (IF Len(witnesses) < 4
               THEN LET sps == maybe_point_at_variant(ty, witnesses)
                    IN  [k \in 1..Len(sps) |-> Label(sps[k], "not covered")]
               ELSE <<>>))
         EXCEPT !.joined = joined_patterns]

\* check_exhaustive: the verdict of check_not_useful and the diagnostics.
check_exhaustive(scrut_ty, sp, matrix) ==
    LET r == check_not_useful(scrut_ty, matrix)
        witnesses == IF r.pats = <<>> THEN <<PWild(scrut_ty)>>
                     ELSE [k \in 1..Len(r.pats) |-> r.pats[k][1]]
    IN  IF r.ok THEN <<>>
        ELSE IF r.bug THEN <<Diag("bug", <<sp>>, "bug!()", <<>>)>>
        ELSE <<ReportUncovered(scrut_ty, sp, witnesses)>>

(***************************************************************************)
(* The zero-arm case of MatchVisitor::check_match.                         *)
(***************************************************************************)
\* tcx.is_ty_uninhabited_from(module, ty)
RECURSIVE is_ty_uninhabited_from(_)
is_ty_uninhabited_from(ty) ==
    IF ty.kind = "Never" THEN TRUE
    ELSE IF ty.kind = "Ref" THEN FALSE
    ELSE \A c \in 1..Len(ty.variants) :
            \E f \in 1..Len(ty.variants[c]) : is_ty_uninhabited_from(ty.variants[c][f])

\* missing_variants: the variants kept to point at, for an ADT with one to
\* three variants when exhaustive_patterns is off.
MissingVariants(pat_ty, exhaustive_patterns) ==
    IF ~exhaustive_patterns /\ pat_ty.kind = "Adt"
       /\ Len(pat_ty.variants) < 4 /\ pat_ty.variants # <<>>
    THEN [c \in 1..Len(pat_ty.variants) |-> c]
    ELSE <<>>

\* Mutant: an enum of another crate marked non-exhaustive is not told apart.
scrutinee_is_uninhabited_NoForeign(pat_ty, exhaustive_patterns) ==
    IF exhaustive_patterns THEN is_ty_uninhabited_from(pat_ty)
    ELSE IF pat_ty.kind = "Never" THEN TRUE
    ELSE IF pat_ty.kind = "Adt" THEN pat_ty.variants = <<>>
    ELSE FALSE

scrutinee_is_uninhabited(pat_ty, exhaustive_patterns) ==
    IF exhaustive_patterns THEN is_ty_uninhabited_from(pat_ty)
    ELSE IF pat_ty.kind = "Never" THEN TRUE
    ELSE IF pat_ty.kind = "Adt"
    THEN LET is_non_exhaustive_and_non_local == pat_ty.ne /\ ~pat_ty.local
         IN  ~is_non_exhaustive_and_non_local /\ pat_ty.variants = <<>>
    ELSE FALSE

\* The diagnostics of a match without arms.
CheckNoArms(pat_ty, exhaustive_patterns) ==
    LET missing_variants == MissingVariants(pat_ty, exhaustive_patterns)
        def_span == IF ~exhaustive_patterns /\ pat_ty.kind = "Adt" /\ pat_ty.local
                    THEN <<DefSpan>> ELSE <<>>
    IN  IF scrutinee_is_uninhabited(pat_ty, exhaustive_patterns) THEN <<>>
        ELSE <<[Diag("E0004", <<ScrutSpan>>,
                     IF Len(missing_variants) = 0 THEN "non-exhaustive patterns: type is non-empty"
                     ELSE IF Len(missing_variants) = 1
                     THEN "non-exhaustive patterns: pattern of type is not handled"
                     ELSE "non-exhaustive patterns: multiple patterns of type are not handled",
                     [k \in 1..Len(def_span) |-> Label(def_span[k], "defined here")] \o
                     [k \in 1..Len(missing_variants) |->
                         Label(VariantSpan(missing_variants[k]), "variant not covered")])
                EXCEPT !.variants = IF Len(missing_variants) = 1
                                    THEN <<missing_variants[1]>> ELSE <<>>]>>

\* The matrix check_match hands to check_exhaustive: the patterns of the
\* guard-free arms, in source order, one row each.
ExhaustiveMatrix(inl) ==
    Concat([a \in 1..Len(inl) |->
              IF inl[a].guard = <<>>
              THEN [j \in 1..Len(inl[a].pats) |-> <<inl[a].pats[j][1]>>]
              ELSE <<>>])

(***************************************************************************)
(* The first loop of MatchVisitor::check_match, over the arms.             *)
(***************************************************************************)
\* Mutant: signalled_error is set when the guard check reports something.
LegalityArm_OnDiag(a, arm, ty, bind_by_move) ==
    [diags |-> check_patterns(a, arm.guard # <<>>, arm.pats, bind_by_move) \o
               (IF arm.guard # <<>> /\ ~bind_by_move
                THEN check_for_mutation_in_guard(arm.guard) ELSE <<>>) \o
               Concat([j \in 1..Len(arm.pats) |->
                         check_for_bindings_named_same_as_variants(arm.pats[j], <<a, j>>, ty)]),
     sig |-> arm.guard # <<>> /\ ~bind_by_move /\ check_for_mutation_in_guard(arm.guard) # <<>>]

\* The body of the loop for arm a: the diagnostics of the three checks and
\* whether signalled_error is set.
LegalityArm(a, arm, ty, bind_by_move) ==
    [diags |-> check_patterns(a, arm.guard # <<>>, arm.pats, bind_by_move) \o
               (IF arm.guard # <<>> /\ ~bind_by_move
                THEN check_for_mutation_in_guard(arm.guard) ELSE <<>>) \o
               Concat([j \in 1..Len(arm.pats) |->
                         check_for_bindings_named_same_as_variants(arm.pats[j], <<a, j>>, ty)]),
     sig |-> arm.guard # <<>>]

\* The loop from arm a on; acc is [diags, sig, legal] with legal the arms
\* the loop body has run on.
RECURSIVE LegalityLoop(_, _, _, _, _)
LegalityLoop(arms_, a, ty, bind_by_move, acc) ==
    IF a > Len(arms_) THEN acc
    ELSE LET r == LegalityArm(a, arms_[a], ty, bind_by_move)
         IN  LegalityLoop(arms_, a + 1, ty, bind_by_move,
                          [diags |-> acc.diags \o r.diags,
                           sig |-> IF r.sig THEN "SawSomeError" ELSE acc.sig,
                           legal |-> Append(acc.legal, a)])

\* inlined_arms: every pattern of every arm lowered, paired with its source
\* pattern.
InlineArms(arms_, ty) ==
    [a \in 1..Len(arms_) |->
        [pats |-> [j \in 1..Len(arms_[a].pats) |->
                      <<lower_pattern(arms_[a].pats[j], ty), arms_[a].pats[j]>>],
         guard |-> arms_[a].guard]]

\* Mutant: lowering stops at the first pattern that does not lower.
InlineErrors_First(arms_) ==
    LET all == Concat([a \in 1..Len(arms_) |->
                  [j \in 1..Len(arms_[a].pats) |->
                      report_inlining_errors(LoweringErrors(arms_[a].pats[j]), <<a, j>>)]])
        bad == SelectSeq(all, LAMBDA ds : ds # <<>>)
    IN  IF bad = <<>> THEN <<>> ELSE bad[1]

\* The diagnostics report_inlining_errors emits while the arms are lowered.
InlineErrors(arms_) ==
    Concat([a \in 1..Len(arms_) |->
              Concat([j \in 1..Len(arms_[a].pats) |->
                        report_inlining_errors(LoweringErrors(arms_[a].pats[j]), <<a, j>>)])])

\* have_errors after lowering.
HaveErrors(arms_) ==
    \E a \in 1..Len(arms_) : \E j \in 1..Len(arms_[a].pats) :
        LoweringErrors(arms_[a].pats[j]) # <<>>

(***************************************************************************)
(* Inputs: the match expressions of the visited body.                      *)
(***************************************************************************)
NoGuard == <<>>
\* if <expr that only reads>
PlainGuard == << <<"ImmBorrow">> >>
\* if <expr that borrows mutably, assigns, reads, initializes, updates in
\* place and borrows uniquely>
BadGuard ==
    << <<"MutBorrow", "JustWrite", "ImmBorrow", "Init", "WriteAndRead", "UniqueImmBorrow">> >>

\* x (by value, of a Copy type)
HVar == HBind("value", TRUE, 0, <<>>)

\* The patterns the arms of a match on a scrutinee of type ty are drawn from.
PatSet(ty) ==
    IF ty.did = "Opt"
    THEN {HWild, HPath("Variant", 1), HTupleStruct(2, <<HWild>>),
          HTupleStruct(2, <<HPath("Variant", 1)>>), HTupleStruct(2, <<HPath("Variant", 2)>>)}
    ELSE IF ty.did = "Tri"
    THEN {HWild, HPath("Variant", 1), HPath("Variant", 2), HPath("Variant", 3)}
    ELSE IF ty.kind = "Tuple"
    THEN {HVar, HTuple(<<HVar, HVar>>), HTuple(<<HPath("Variant", 1), HWild>>),
          HTuple(<<HWild, HPath("Variant", 2)>>)}
    ELSE IF ty.kind = "Ref"
    THEN {HRef(HVar), HRef(HPath("Variant", 1)), HRef(HPath("Variant", 2))}
    ELSE {HWild}

\* Patterns over Opt that the legality checks and lowering have something
\* to say about: ref x; mut y (by move); S(ref x); y @ S(x) (by move);
\* N (a binding named as the variant); ref a @ S(ref b); a static;
\* S(<associated const>).
LegalPats ==
    {HBind("ref", FALSE, 0, <<>>),
     HBind("value_mut", FALSE, 0, <<>>),
     HTupleStruct(2, <<HBind("ref", FALSE, 0, <<>>)>>),
     HBind("value", FALSE, 0, <<HTupleStruct(2, <<HVar>>)>>),
     HBind("value", TRUE, 1, <<>>),
     HBind("ref", FALSE, 0, <<HTupleStruct(2, <<HBind("ref", FALSE, 0, <<>>)>>)>>),
     HPath("Static", 0),
     HTupleStruct(2, <<HPath("AssocConst", 0)>>)}

\* The arms written as n patterns ps, with cuts[i] telling that pattern i
\* starts an arm (the first does) and gs[a] the guard of arm a.
NumArms(cuts) == Cardinality({i \in DOMAIN cuts : cuts[i]})
ArmStart(cuts, a) ==
    IF a > NumArms(cuts) THEN Len(cuts) + 1
    ELSE CHOOSE i \in DOMAIN cuts :
            cuts[i] /\ Cardinality({k \in 1..i : cuts[k]}) = a
MkArms(ps, cuts, gs) ==
    [a \in 1..NumArms(cuts) |->
        [pats |-> SubSeq(ps, ArmStart(cuts, a), ArmStart(cuts, a + 1) - 1),
         guard |-> gs[a]]]

MatchExpr(ty, al, src) == [scrut_ty |-> ty, arms |-> al, source |-> src]

MainTypes == {Opt(TRUE, FALSE), Pair, RefFlag}

ZeroTypes ==
    {Void(l, n) : l \in BOOLEAN, n \in BOOLEAN} \cup {One(l, n) : l \in BOOLEAN, n \in BOOLEAN}
    \cup {Opt(l, n) : l \in BOOLEAN, n \in BOOLEAN} \cup {Wrap, Flag, Tri, Pair, NeverTy}

ZeroInputs == {MatchExpr(ty, <<>>, "Normal") : ty \in ZeroTypes}

\* if let / while let / for / ? / await desugar into two arms of one
\* pattern each; if and while into the arms `true` and `_` of a bool.
DesugarInputs ==
    {MatchExpr(Tri, <<[pats |-> <<p>>, guard |-> NoGuard], [pats |-> <<q>>, guard |-> NoGuard]>>, src) :
        p \in PatSet(Tri), q \in PatSet(Tri),
        src \in {"IfLetDesugar", "WhileLetDesugar", "ForLoopDesugar", "TryDesugar", "AwaitDesugar"}}
    \cup
    {MatchExpr(Flag, <<[pats |-> <<HPath("Variant", 2)>>, guard |-> NoGuard],
                       [pats |-> <<HWild>>, guard |-> NoGuard]>>, src) :
        src \in {"IfDesugar", "WhileDesugar"}}

\* The match expressions that follow the first one of a body.
LaterInputs ==
    {MatchExpr(Void(TRUE, FALSE), <<>>, "Normal"),
     MatchExpr(Flag, <<>>, "Normal"),
     MatchExpr(Flag, <<[pats |-> <<HWild>>, guard |-> NoGuard]>>, "Normal"),
     MatchExpr(Flag, <<[pats |-> <<HPath("Variant", 1)>>, guard |-> PlainGuard],
                       [pats |-> <<HVar>>, guard |-> NoGuard]>>, "Normal"),
     MatchExpr(Flag, <<[pats |-> <<HPath("Static", 0)>>, guard |-> NoGuard],
                       [pats |-> <<HWild>>, guard |-> NoGuard]>>, "Normal"),
     MatchExpr(Flag, <<[pats |-> <<HPath("Static", 0)>>, guard |-> BadGuard]>>, "Normal")}

\* Matches whose first arm is one of the shapes pat_is_catchall tells
\* apart, followed by a wildcard arm: _; x; x @ _; x @ y; (x, y); (_, y);
\* (x, F); (x @ y, z); &x; &_; &F; a tuple struct of bindings.
CatchallInputs ==
    {MatchExpr(Pair, <<[pats |-> <<p>>, guard |-> g], [pats |-> <<HWild>>, guard |-> NoGuard]>>,
               "Normal") :
        p \in {HWild, HVar, HBind("value", TRUE, 0, <<HWild>>), HBind("value", TRUE, 0, <<HVar>>),
               HTuple(<<HVar, HVar>>), HTuple(<<HWild, HVar>>),
               HTuple(<<HVar, HPath("Variant", 1)>>),
               HTuple(<<HBind("value", TRUE, 0, <<HVar>>), HVar>>)},
        g \in {NoGuard, PlainGuard}}
    \cup
    {MatchExpr(ty, <<[pats |-> <<p>>, guard |-> g], [pats |-> <<HWild>>, guard |-> NoGuard]>>,
               "Normal") :
        p \in {HRef(HVar), HRef(HWild), HRef(HPath("Variant", 1)),
               HRef(HBind("value", TRUE, 0, <<HWild>>))},
        g \in {NoGuard, PlainGuard}, ty \in {RefFlag}}
    \cup
    {MatchExpr(Opt(TRUE, FALSE),
               <<[pats |-> <<HTupleStruct(2, <<HVar>>)>>, guard |-> NoGuard],
                 [pats |-> <<HWild>>, guard |-> NoGuard]>>, "Normal"),
     MatchExpr(TupleTy(<<>>),
               <<[pats |-> <<HTuple(<<>>)>>, guard |-> NoGuard],
                 [pats |-> <<HWild>>, guard |-> NoGuard]>>, "Normal")}

\* The crate's features.
Features == [exhaustive_patterns : BOOLEAN, bind_by_move_pattern_guards : BOOLEAN]

\* The families of match expressions the n-th visit may meet in a crate
\* with features f, apart from the arm lists built by MkArms.
Inputs(n, f) ==
    IF n > 0 THEN LaterInputs
    ELSE (IF ~f.exhaustive_patterns /\ ~f.bind_by_move_pattern_guards
          THEN DesugarInputs \cup CatchallInputs ELSE {})
         \cup (IF ~f.bind_by_move_pattern_guards THEN ZeroInputs ELSE {})
         \cup (IF f.exhaustive_patterns /\ f.bind_by_move_pattern_guards
               THEN LaterInputs ELSE {})

\* The arm lists of the n-th visit: any arms with up to MaxPats patterns of
\* PatSet, with or without a read-only guard; and, over Opt, any arms with up
\* to MaxLegalPats patterns of LegalPats, with or without a mutating guard,
\* and any guard-free arms with up to MaxLegalPats patterns over the Opt of
\* another crate that is marked non-exhaustive.
ArmInputs(n, f) ==
    IF n > 0 \/ f.exhaustive_patterns THEN {}
    ELSE (IF ~f.bind_by_move_pattern_guards
          THEN {[ty |-> ty, P |-> PatSet(ty), G |-> {NoGuard, PlainGuard}, max |-> MaxPats] :
                  ty \in MainTypes}
          ELSE {})
         \cup {[ty |-> Opt(TRUE, FALSE), P |-> LegalPats, G |-> {NoGuard, BadGuard},
                max |-> MaxLegalPats],
               [ty |-> Opt(FALSE, TRUE), P |-> PatSet(Opt(FALSE, TRUE)), G |-> {NoGuard},
                max |-> MaxLegalPats]}

(***************************************************************************)
(* State.                                                                  *)
(***************************************************************************)
VARIABLES
    pc,               \* where check_match(tcx, def_id) is
    body_local,       \* tcx.hir().as_local_hir_id(def_id) is Some
    features,         \* tcx.features()
    signalled_error,  \* MatchVisitor.signalled_error
    result,           \* the value check_match(tcx, def_id) returned, "" before
    nmatch,           \* number of match expressions visited
    hist,             \* what the matches visited so far had: a guard, a lowering error,
                      \* a diagnostic
    scrut_ty, arms, source,   \* the match expression being checked
    diags,            \* diagnostics of the legality checks and of lowering
    legal,            \* the arms the legality loop has run on
    inlined_arms, have_errors,
    ca,               \* the locals of check_arms
    ex,               \* the exhaustiveness phase: which ran, its matrix, its diagnostics
    mono,             \* a second run of check_arms, on other arms (SpecMono)
    uncovered         \* witnesses handed to the report of check_exhaustive (SpecReport)

vars == <<pc, body_local, features, signalled_error, result, nmatch, hist, scrut_ty, arms,
          source, diags, legal, inlined_arms, have_errors, ca, ex, mono, uncovered>>

ExNone == [ran |-> "none", matrix |-> <<>>, diags |-> <<>>]
MonoNone == [arms |-> <<>>, k |-> 0, ca |-> CheckArmsInit]

matchVars == <<scrut_ty, arms, source, diags, legal, inlined_arms, have_errors, ca, ex>>

NoMatch ==
    /\ scrut_ty = NeverTy /\ arms = <<>> /\ source = ""
    /\ diags = <<>> /\ legal = <<>> /\ inlined_arms = <<>> /\ have_errors = FALSE
    /\ ca = CheckArmsInit /\ ex = ExNone

Init ==
    /\ pc = "entry"
    /\ body_local \in BOOLEAN
    /\ features \in Features
    /\ signalled_error = "NoErrorsSeen"
    /\ result = ""
    /\ nmatch = 0
    /\ hist = [guard |-> FALSE, lowering_error |-> FALSE, emitted |-> FALSE]
    /\ NoMatch
    /\ mono = MonoNone
    /\ uncovered = <<>>

\* check_match(tcx, def_id) up to visit_body: a body that is not local is
\* not checked.
Enter ==
    /\ pc = "entry"
    /\ IF body_local
       THEN pc' = "walk" /\ result' = result
       ELSE pc' = "returned" /\ result' = "NoErrorsSeen"
    /\ UNCHANGED <<body_local, features, signalled_error, nmatch, hist, matchVars, mono, uncovered>>

\* MatchVisitor::check_match starts on the match expression m and runs its
\* loop over the arms.
StartMatch(m) ==
    LET r == LegalityLoop(m.arms, 1, m.scrut_ty, features.bind_by_move_pattern_guards,
                          [diags |-> <<>>, sig |-> signalled_error, legal |-> <<>>])
    IN  /\ scrut_ty' = m.scrut_ty
        /\ arms' = m.arms
        /\ source' = m.source
        /\ diags' = r.diags
        /\ legal' = r.legal
        /\ signalled_error' = r.sig
        /\ hist' = [hist EXCEPT !.guard = @ \/ \E a \in 1..Len(m.arms) : m.arms[a].guard # <<>>]
        /\ pc' = "lower"
        /\ UNCHANGED <<body_local, features, result, nmatch, inlined_arms, have_errors, ca,
                       ex, mono, uncovered>>

\* visit_expr meets a match expression.
VisitExpr ==
    /\ pc = "walk"
    /\ nmatch < MaxMatches
    /\ \/ \E m \in Inputs(nmatch, features) : StartMatch(m)
       \/ \E fam \in ArmInputs(nmatch, features) :
            \E n \in 1..fam.max :
              \E ps \in [1..n -> fam.P], cuts \in [1..n -> BOOLEAN] :
                /\ cuts[1]
                /\ \E gs \in [1..NumArms(cuts) -> fam.G] :
                     StartMatch(MatchExpr(fam.ty, MkArms(ps, cuts, gs), "Normal"))

\* The arms are lowered; check_match bails out if one did not lower.
LowerArms ==
    /\ pc = "lower"
    /\ inlined_arms' = InlineArms(arms, scrut_ty)
    /\ have_errors' = HaveErrors(arms)
    /\ diags' = diags \o InlineErrors(arms)
    /\ hist' = [hist EXCEPT !.lowering_error = @ \/ HaveErrors(arms)]
    /\ pc' = IF HaveErrors(arms) THEN "checked" ELSE "arms"
    /\ UNCHANGED <<body_local, features, signalled_error, result, nmatch, scrut_ty, arms,
                   source, legal, ca, ex, mono, uncovered>>

\* One pattern of one arm is tested in check_arms.
CheckArms ==
    /\ pc = "arms"
    /\ ~CheckArmsDone(ca, inlined_arms)
    /\ ca' = CheckArmsStep(ca, inlined_arms, source)
    /\ UNCHANGED <<pc, body_local, features, signalled_error, result, nmatch, hist, scrut_ty,
                   arms, source, diags, legal, inlined_arms, have_errors, ex, mono, uncovered>>

\* After check_arms: the zero-arm check, or check_exhaustive on the matrix
\* of the guard-free arms.
Exhaustiveness ==
    /\ pc = "arms"
    /\ CheckArmsDone(ca, inlined_arms)
    /\ ex' = IF inlined_arms = <<>>
             THEN [ran |-> "zero", matrix |-> <<>>,
                   diags |-> CheckNoArms(scrut_ty, features.exhaustive_patterns)]
             ELSE [ran |-> "exhaustive", matrix |-> ExhaustiveMatrix(inlined_arms),
                   diags |-> check_exhaustive(scrut_ty, ScrutSpan,
                                              ExhaustiveMatrix(inlined_arms))]
    /\ pc' = "checked"
    /\ UNCHANGED <<body_local, features, signalled_error, result, nmatch, hist, scrut_ty,
                   arms, source, diags, legal, inlined_arms, have_errors, ca, mono, uncovered>>

\* MatchVisitor::check_match returns; the walk of the body goes on.
EndMatch ==
    /\ pc = "checked"
    /\ pc' = "walk"
    /\ nmatch' = nmatch + 1
    /\ scrut_ty' = NeverTy /\ arms' = <<>> /\ source' = ""
    /\ diags' = <<>> /\ legal' = <<>> /\ inlined_arms' = <<>> /\ have_errors' = FALSE
    /\ ca' = CheckArmsInit /\ ex' = ExNone
    /\ hist' = [hist EXCEPT !.emitted = @ \/ diags \o ca.diags \o ex.diags # <<>>]
    /\ UNCHANGED <<body_local, features, signalled_error, result, mono, uncovered>>

\* visit_body is through: check_match(tcx, def_id) returns the flag.
FinishBody ==
    /\ pc = "walk"
    /\ pc' = "returned"
    /\ result' = signalled_error
    /\ UNCHANGED <<body_local, features, signalled_error, nmatch, hist, matchVars, mono, uncovered>>

Next ==
    \/ Enter
    \/ VisitExpr
    \/ LowerArms
    \/ CheckArms
    \/ Exhaustiveness
    \/ EndMatch
    \/ FinishBody

Spec == Init /\ [][Next]_vars

\* All diagnostics emitted for the match being checked, in order.
AllDiags == diags \o ca.diags \o ex.diags

(***************************************************************************)
(* What the claims are stated with.                                        *)
(***************************************************************************)
\* The values of a type: a constructor applied to values of its fields; an
\* enum that other crates may extend has a value of a variant not known here.
RECURSIVE Values(_)
RECURSIVE FieldValues(_)
FieldValues(tys) ==
    IF tys = <<>> THEN {<<>>}
    ELSE {<<v>> \o rest : v \in Values(Head(tys)), rest \in FieldValues(Tail(tys))}
Values(ty) ==
    UNION {{[ctor |-> c, fields |-> fs] : fs \in FieldValues(ty.variants[c])} :
           c \in 1..Len(ty.variants)}
    \cup (IF ty.kind = "Adt" /\ ty.ne /\ ~ty.local
          THEN {[ctor |-> 0, fields |-> <<>>]} ELSE {})

\* A pattern matches a value.
RECURSIVE Matches(_, _)
Matches(p, v) ==
    IF p.kind = "Wild" THEN TRUE
    ELSE IF p.kind = "Binding" THEN p.sub = <<>> \/ Matches(p.sub[1], v)
    ELSE p.ctor = v.ctor /\ \A i \in 1..Len(p.sub) : Matches(p.sub[i], v.fields[i])

\* The positions (arm, pattern) of an arm list in source order.
AllPos(al) == Concat([a \in 1..Len(al) |-> [j \in 1..Len(al[a].pats) |-> <<a, j>>]])
Before(p, q) == p[1] < q[1] \/ (p[1] = q[1] /\ p[2] < q[2])

\* The rows of the patterns of the guard-free arms at the positions ps, in
\* order, lowered from the source arms.
GuardFreeRows(ps) ==
    LET free == SelectSeq(ps, LAMBDA q : arms[q[1]].guard = <<>>)
    IN  [k \in 1..Len(free) |->
            <<lower_pattern(arms[free[k][1]].pats[free[k][2]], scrut_ty)>>]

\* The first n positions, those before position q, those of arms before arm a.
FirstPos(n) == SubSeq(AllPos(arms), 1, n)
PosBefore(q) == SelectSeq(AllPos(arms), LAMBDA r : Before(r, q))
PosOfEarlierArms(a) == SelectSeq(AllPos(arms), LAMBDA r : r[1] < a)

HasCode(ds, codes) == \E k \in 1..Len(ds) : ds[k].code \in codes

\* check_arms / check_exhaustive of the current match were entered.
InCheckArms == pc \in {"arms", "checked"} /\ ~have_errors
ExhaustiveRan == pc = "checked" /\ ex.ran = "exhaustive"

(***************************************************************************)
(* C1  Exhaustiveness soundness: when check_exhaustive gets NotUseful for  *)
(* the wildcard of the scrutinee's type against the matrix (and so emits   *)
(* no E0004), every value of the type is matched by a row of the matrix.   *)
(***************************************************************************)
C1_ExhaustiveSound ==
    (ExhaustiveRan /\ ~HasCode(ex.diags, {"E0004", "bug"}))
        => \A v \in Values(scrut_ty) :
              \E k \in 1..Len(ex.matrix) : Matches(ex.matrix[k][1], v)

\* An exhaustive match over Opt without any irrefutable row: N, S(F), S(T).
C1_Witness ==
    /\ ExhaustiveRan /\ ex.diags = <<>>
    /\ scrut_ty = Opt(TRUE, FALSE)
    /\ Len(ex.matrix) = 3
    /\ \A k \in 1..Len(ex.matrix) :
          \E v \in Values(scrut_ty) : ~Matches(ex.matrix[k][1], v)

(***************************************************************************)
(* C2  A pattern of an arm with a guard is tested by check_arms but is     *)
(* never a row of `seen`, at any point, nor of the matrix handed to        *)
(* check_exhaustive; the patterns of the guard-free arms are the rows of   *)
(* both, in source order.                                                  *)
(***************************************************************************)
C2_GuardedNeverSeen ==
    InCheckArms =>
        /\ [k \in 1..Len(ca.tests) |-> <<ca.tests[k].i, ca.tests[k].j>>]
              = FirstPos(Len(ca.tests))
        /\ (CheckArmsDone(ca, inlined_arms) => Len(ca.tests) = Len(AllPos(arms)))
        /\ ca.seen = GuardFreeRows(FirstPos(Len(ca.tests)))
        /\ \A k \in 1..Len(ca.tests) : ca.tests[k].seen = GuardFreeRows(FirstPos(k - 1))
        /\ (ExhaustiveRan => ex.matrix = GuardFreeRows(AllPos(arms)))

\* A match with a guarded arm between two guard-free ones went through both
\* phases.
C2_Witness ==
    /\ ExhaustiveRan
    /\ Len(arms) = 3
    /\ arms[1].guard = <<>> /\ arms[2].guard # <<>> /\ arms[3].guard = <<>>
    /\ Len(ca.tests) = 3 /\ Len(ex.matrix) = 2

(***************************************************************************)
(* C3  As claimed: every pattern of arm i is tested against a matrix that  *)
(* holds only patterns of strictly earlier arms.                           *)
(***************************************************************************)
C3_OnlyEarlierArms ==
    InCheckArms =>
        \A k \in 1..Len(ca.tests) :
            ca.tests[k].seen = GuardFreeRows(PosOfEarlierArms(ca.tests[k].i))

(***************************************************************************)
(* C3 amended: every pattern is tested against the matrix of the patterns  *)
(* of the guard-free arms that precede it in source order, the earlier     *)
(* alternatives of its own arm included when that arm has no guard; the    *)
(* pattern itself and what follows it are not rows of that matrix.         *)
(***************************************************************************)
C3_EarlierPatterns ==
    InCheckArms =>
        \A k \in 1..Len(ca.tests) :
            ca.tests[k].seen = GuardFreeRows(PosBefore(<<ca.tests[k].i, ca.tests[k].j>>))

\* The second alternative of a guard-free arm was tested against a matrix
\* that holds the first.
C3_Witness ==
    /\ InCheckArms
    /\ \E k \in 1..Len(ca.tests) :
          /\ ca.tests[k].j = 2
          /\ arms[ca.tests[k].i].guard = <<>>
          /\ ca.tests[k].seen # <<>>
          /\ ca.tests[k].seen[Len(ca.tests[k].seen)]
                = <<lower_pattern(arms[ca.tests[k].i].pats[1], scrut_ty)>>

(***************************************************************************)
(* C5  Wildcard closes everything: once a guard-free arm whose pattern is  *)
(* a pure wildcard has been processed by check_arms, every later pattern   *)
(* gets the verdict NotUseful, and the exhaustiveness check on the         *)
(* resulting matrix reports NotUseful (no E0004).                          *)
(***************************************************************************)
PureWildAt(q) == arms[q[1]].guard = <<>> /\ arms[q[1]].pats[q[2]].node = "Wild"

C5_WildcardCloses ==
    InCheckArms =>
        /\ \A k \in 1..Len(ca.tests) : \A l \in 1..Len(ca.tests) :
              (k < l /\ PureWildAt(<<ca.tests[k].i, ca.tests[k].j>>))
                  => ca.tests[l].u = "NotUseful"
        /\ (ExhaustiveRan /\ \E k \in 1..Len(AllPos(arms)) : PureWildAt(AllPos(arms)[k]))
              => ex.diags = <<>>

\* A wildcard arm was followed by another arm, found not useful, and the
\* match was found exhaustive.
C5_Witness ==
    /\ ExhaustiveRan /\ ex.diags = <<>>
    /\ Len(ca.tests) >= 2
    /\ PureWildAt(<<1, 1>>)
    /\ arms[Len(arms)].pats[1].node # "Wild"
    /\ \A l \in 2..Len(ca.tests) : ca.tests[l].u = "NotUseful"

(***************************************************************************)
(* C6  As claimed: a match without arms emits no diagnostic when the       *)
(* scrutinee is an enum without variants, and emits E0004 naming the       *)
(* variant when it is an enum with exactly one variant, in every           *)
(* configuration.                                                          *)
(***************************************************************************)
ZeroArmsRan == pc = "checked" /\ ex.ran = "zero"
NamesVariant(ds, c) ==
    \E k \in 1..Len(ds) : ds[k].code = "E0004" /\ ds[k].variants = <<c>>

C6_VacuityEveryConfiguration ==
    (ZeroArmsRan /\ scrut_ty.kind = "Adt") =>
        /\ (Len(scrut_ty.variants) = 0 => AllDiags = <<>>)
        /\ (Len(scrut_ty.variants) = 1 => NamesVariant(AllDiags, 1))

(***************************************************************************)
(* C6 amended: with exhaustive_patterns off, a match without arms on an    *)
(* enum without variants emits no diagnostic unless the enum is of another *)
(* crate and marked non-exhaustive, and then it emits E0004 "type is       *)
(* non-empty"; on an enum with exactly one variant it emits E0004 naming   *)
(* the variant.  With exhaustive_patterns on, E0004 is emitted exactly     *)
(* when is_ty_uninhabited_from says the type is inhabited, and it names no *)
(* variant.                                                                *)
(***************************************************************************)
C6_Vacuity ==
    (ZeroArmsRan /\ scrut_ty.kind = "Adt") =>
        IF ~features.exhaustive_patterns
        THEN /\ (Len(scrut_ty.variants) = 0 /\ ~(scrut_ty.ne /\ ~scrut_ty.local))
                   => AllDiags = <<>>
             /\ (Len(scrut_ty.variants) = 0 /\ scrut_ty.ne /\ ~scrut_ty.local)
                   => /\ Len(AllDiags) = 1
                      /\ AllDiags[1].code = "E0004"
                      /\ AllDiags[1].variants = <<>>
             /\ Len(scrut_ty.variants) = 1
                   => Len(AllDiags) = 1 /\ NamesVariant(AllDiags, 1)
        ELSE /\ HasCode(AllDiags, {"E0004"}) <=> ~is_ty_uninhabited_from(scrut_ty)
             /\ \A k \in 1..Len(AllDiags) : AllDiags[k].variants = <<>>

\* With the feature off, a match without arms on the local single-variant
\* enum One was checked and E0004 names its variant.
C6_Witness ==
    /\ ZeroArmsRan /\ ~features.exhaustive_patterns
    /\ scrut_ty = One(TRUE, FALSE)
    /\ NamesVariant(AllDiags, 1)

(***************************************************************************)
(* C7  If some arm pattern of some match of the body did not lower, the    *)
(* value check_match(tcx, def_id) returns is SawSomeError.                 *)
(***************************************************************************)
C7_LoweringErrorSignalled ==
    (pc = "returned" /\ hist.lowering_error) => result = "SawSomeError"

(***************************************************************************)
(* C8  If at least one arm pattern of a match does not lower, neither      *)
(* check_arms nor the zero-arm / exhaustiveness check runs for that match  *)
(* (no unreachable-pattern, no E0004 diagnostic), while the legality       *)
(* checks have run on every arm, and an error is reported for every        *)
(* pattern node that did not lower, not only for the first.                *)
(***************************************************************************)
CountCode(ds, code) == Cardinality({k \in 1..Len(ds) : ds[k].code = code})
IsPrefix(s, t) == Len(s) < Len(t) /\ SubSeq(t, 1, Len(s)) = s

\* The nodes of all arms, with their spans.
AllNodes == Concat([a \in 1..Len(arms) |-> GroupWalk(a, arms[a].pats)])
\* The binding nodes that lie inside the sub-pattern of a binding.
BeneathAt ==
    LET ns == AllNodes
    IN  {k \in 1..Len(ns) :
            /\ ns[k].pat.node = "Binding"
            /\ \E l \in 1..Len(ns) :
                  ns[l].pat.node = "Binding" /\ IsPrefix(ns[l].span, ns[k].span)}
\* The path nodes that do not lower.
Unlowered ==
    LET ns == AllNodes
    IN  {k \in 1..Len(ns) :
            ns[k].pat.node = "Path" /\ ns[k].pat.res \in {"Static", "AssocConst"}}
\* The mutable borrows in the guards of the arms.
GuardEffects(effs) ==
    Concat([a \in 1..Len(arms) |->
              IF arms[a].guard = <<>> THEN <<>>
              ELSE SelectSeq(arms[a].guard[1], LAMBDA e : e \in effs)])

MatchStarted == pc \in {"lower", "arms", "checked"}
ArmNodes(a) == GroupWalk(a, arms[a].pats)
ByRefAt(a) ==
    LET ns == ArmNodes(a)
    IN  {k \in 1..Len(ns) : ns[k].pat.node = "Binding" /\ ns[k].pat.bm = "ref"}
ByMoveAt(a) ==
    LET ns == ArmNodes(a)
    IN  {k \in 1..Len(ns) :
            /\ ns[k].pat.node = "Binding"
            /\ ns[k].pat.bm \in {"value", "value_mut"}
            /\ ~ns[k].pat.copy}
SpansAt(a, K) == LET ns == ArmNodes(a) IN {ns[k].span : k \in K}
\* The E0009 diagnostics on the patterns of arm a.
E0009Of(a) == SelectSeq(diags, LAMBDA d : d.code = "E0009" /\ d.spans[1][1] = a)
LabelSpans(d) == {d.labels[k].span : k \in 1..Len(d.labels)}

C9_MoveRefConflict ==
    MatchStarted =>
        \A a \in 1..Len(arms) :
            /\ E0009Of(a) # <<>> <=> (ByRefAt(a) # {} /\ ByMoveAt(a) # {})
            /\ \A k \in 1..Len(E0009Of(a)) :
                  SpansAt(a, ByRefAt(a) \cup ByMoveAt(a)) \subseteq LabelSpans(E0009Of(a)[k])

(***************************************************************************)
(* C9 amended: E0009 is emitted for the patterns of an arm exactly when    *)
(* the arm has no guard and its patterns hold a by-reference binding and a *)
(* by-value binding of a non-Copy type whose sub-pattern binds nothing; it *)
(* is emitted once, its spans are those by-move bindings in visiting       *)
(* order, and its labels are the last by-reference binding visited and     *)
(* each of those by-move bindings.                                         *)
(***************************************************************************)
\* The by-move bindings without sub-bindings.
OffendingAt(a) ==
    LET ns == ArmNodes(a)
    IN  {k \in ByMoveAt(a) :
            ~\E l \in 1..Len(ns) :
                ns[l].pat.node = "Binding" /\ IsPrefix(ns[k].span, ns[l].span)}
Max(S) == CHOOSE x \in S : \A y \in S : y <= x

C9_MoveRefConflictUnguarded ==
    MatchStarted =>
        \A a \in 1..Len(arms) :
            LET ns == ArmNodes(a)
                refs == ByRefAt(a)
                off == OffendingAt(a)
                e == E0009Of(a)
            IN  IF arms[a].guard = <<>> /\ refs # {} /\ off # {}
                THEN /\ Len(e) = 1
                     /\ Range(e[1].spans) = SpansAt(a, off)
                     /\ Len(e[1].spans) = Cardinality(off)
                     /\ \A k \in 1..(Len(e[1].spans) - 1) :
                           \E m \in off : \E n \in off :
                               /\ m < n
                               /\ e[1].spans[k] = ns[m].span
                               /\ e[1].spans[k + 1] = ns[n].span
                     /\ LabelSpans(e[1]) = SpansAt(a, off \cup {Max(refs)})
                ELSE e = <<>>

\* An arm without a guard, `ref a @ S(ref b) | mut y`: E0009 is emitted and
\* labels only the last of the two by-reference bindings.
C9_Witness ==
    /\ MatchStarted
    /\ \E a \in 1..Len(arms) :
          /\ arms[a].guard = <<>>
          /\ Cardinality(ByRefAt(a)) = 2
          /\ Len(E0009Of(a)) = 1
          /\ Cardinality(LabelSpans(E0009Of(a)[1])) = 2

(***************************************************************************)
(* C10  As claimed: pat_is_catchall holds exactly of a wildcard, a binding *)
(* without sub-pattern or with a catch-all sub-pattern, a reference to a   *)
(* catch-all and a tuple of catch-alls, so the catch-all check_arms        *)
(* records is the first pattern of a guard-free arm of one of these        *)
(* shapes, a bare wildcard included.                                       *)
(***************************************************************************)
\* A pattern built of the node kinds K only.
BuiltOf(pat, K) == \A k \in 1..Len(Nodes(pat, <<>>)) : Nodes(pat, <<>>)[k].pat.node \in K
ListedShape(pat) == BuiltOf(pat, {"Wild", "Binding", "Ref", "Tuple"})
BindingShape(pat) == BuiltOf(pat, {"Binding", "Ref", "Tuple"})

\* The first of the first n positions that is in a guard-free arm and whose
\* pattern has the shape Sh: <<its span>>, or <<>>.
FirstShaped(Sh(_), n) ==
    LET hits == SelectSeq(FirstPos(n),
                          LAMBDA q : arms[q[1]].guard = <<>> /\ Sh(arms[q[1]].pats[q[2]]))
    IN  IF hits = <<>> THEN <<>> ELSE <<hits[1]>>

C10_CatchallShapes ==
    InCheckArms => ca.catchall = FirstShaped(ListedShape, Len(ca.tests))

(***************************************************************************)
(* C10 amended: pat_is_catchall holds exactly of a binding without         *)
(* sub-pattern or with a catch-all sub-pattern, a reference to a catch-all *)
(* and a tuple of catch-alls; a wildcard is not one, nor is anything that  *)
(* holds a wildcard.  The catch-all check_arms records is the first        *)
(* pattern of a guard-free arm of one of these shapes; a guard-free arm    *)
(* whose pattern is a bare wildcard is not recorded.                       *)
(***************************************************************************)
C10_CatchallShapesNoWildcard ==
    InCheckArms =>
        /\ ca.catchall = FirstShaped(BindingShape, Len(ca.tests))
        /\ (Len(ca.tests) >= 1 /\ PureWildAt(<<1, 1>>)) => ca.catchall # <<<<1, 1>>>>

\* A tuple of bindings in a guard-free first arm was recorded.
C10_Witness ==
    /\ InCheckArms
    /\ ca.catchall = <<<<1, 1>>>>
    /\ arms[1].pats[1].node = "Tuple"
    /\ Len(arms[1].pats[1].sub) = 2

(***************************************************************************)
(* C11  In check_arms the recorded catch-all is at every point unset or    *)
(* the span of the first pattern, in source order among those tested so    *)
(* far, of a guard-free arm that satisfies pat_is_catchall; once set it is *)
(* not replaced; it is recorded after the pattern's own test, so a         *)
(* "matches any value" label of an unreachable pattern is the first such   *)
(* pattern strictly before the reported one.                               *)
(***************************************************************************)
\* The first of the positions ps that is in a guard-free arm and whose
\* pattern satisfies pat_is_catchall: <<its span>>, or <<>>.
FirstCatchall(ps) ==
    LET hits == SelectSeq(ps, LAMBDA q : arms[q[1]].guard = <<>>
                                          /\ pat_is_catchall(arms[q[1]].pats[q[2]]))
    IN  IF hits = <<>> THEN <<>> ELSE <<hits[1]>>
\* The spans labelled "matches any value" by a diagnostic.
CatchallLabels(d) ==
    SelectSeq([k \in 1..Len(d.labels) |-> d.labels[k]], LAMBDA l : l.text = "matches any value")

C11_CatchallState ==
    InCheckArms =>
        /\ ca.catchall = FirstCatchall(FirstPos(Len(ca.tests)))
        /\ \A k \in 1..Len(ca.diags) :
              LET d == ca.diags[k]
                  ls == CatchallLabels(d)
              IN  /\ Len(ls) <= 1
                  /\ \A n \in 1..Len(ls) :
                        /\ Before(ls[n].span, d.spans[1])
                        /\ <<ls[n].span>> = FirstCatchall(PosBefore(d.spans[1]))

C11_CatchallFirstAndKept ==
    /\ []C11_CatchallState
    /\ [][(pc = "arms" /\ pc' = "arms" /\ ca.catchall # <<>>)
             => ca'.catchall = ca.catchall]_vars

\* Two guard-free catch-all patterns were tested: the first is recorded,
\* and the second, reported unreachable, is labelled with the first.
C11_Witness ==
    /\ InCheckArms
    /\ Len(ca.tests) >= 2
    /\ arms[1].guard = <<>> /\ pat_is_catchall(arms[1].pats[1])
    /\ arms[ca.tests[2].i].guard = <<>>
    /\ pat_is_catchall(arms[ca.tests[2].i].pats[ca.tests[2].j])
    /\ ca.catchall = <<<<1, 1>>>>
    /\ \E k \in 1..Len(ca.diags) :
          /\ ca.diags[k].spans[1] = <<ca.tests[2].i, ca.tests[2].j>>
          /\ Len(CatchallLabels(ca.diags[k])) = 1

(***************************************************************************)
(* C12  check_legality_of_bindings_in_at_patterns reports E0303 for a      *)
(* binding node if and only if the node lies inside the sub-pattern of an  *)
(* enclosing binding; bindings_allowed has the same value when visit_pat   *)
(* returns as when it was called, so a binding that is a sibling of an @   *)
(* binding, not beneath it, is not reported.                               *)
(***************************************************************************)
\* The spans of the E0303 diagnostics, in the order emitted.
E0303Spans ==
    LET ds == SelectSeq(diags, LAMBDA d : d.code = "E0303")
    IN  [k \in 1..Len(ds) |-> ds[k].spans[1]]

C12_AtBindings ==
    MatchStarted =>
        LET ns == AllNodes
            es == E0303Spans
            beneath == {k \in 1..Len(ns) :
                          /\ ns[k].pat.node = "Binding"
                          /\ \E l \in 1..Len(ns) :
                                ns[l].pat.node = "Binding"
                                /\ IsPrefix(ns[l].span, ns[k].span)}
        IN  /\ Range(es) = {ns[k].span : k \in beneath}
            /\ Len(es) = Cardinality(beneath)
            /\ \A k \in 1..Len(ns) : \A allowed \in BOOLEAN :
                  visit_pat(ns[k].pat, ns[k].span, allowed).allowed = allowed

\* (x @ y, z): y is reported, z, which follows the @ binding, is not.
C12_Witness ==
    /\ MatchStarted
    /\ Len(arms) >= 1
    /\ arms[1].pats[1] = HTuple(<<HBind("value", TRUE, 0, <<HVar>>), HVar>>)
    /\ E0303Spans = << <<1, 1, 1, 1>> >>

(***************************************************************************)
(* C13  As claimed: for every arm with a guard of every match, each        *)
(* mutable borrow in the guard is reported (E0301) and each write,         *)
(* JustWrite or WriteAndRead, is reported (E0302), and nothing is reported *)
(* for the other use-effects.                                              *)
(***************************************************************************)
\* The codes the guards of the arms call for, in the order of the arms and
\* of the use-effects of each guard.
GuardCodes ==
    LET effs == GuardEffects({"MutBorrow", "JustWrite", "WriteAndRead"})
    IN  [k \in 1..Len(effs) |-> IF effs[k] = "MutBorrow" THEN "E0301" ELSE "E0302"]
\* The E0301 and E0302 diagnostics emitted, by code, in order.
MutationCodes ==
    LET ds == SelectSeq(diags, LAMBDA d : d.code \in {"E0301", "E0302"})
    IN  [k \in 1..Len(ds) |-> ds[k].code]

C13_GuardMutationEveryGuard ==
    MatchStarted => MutationCodes = GuardCodes

(***************************************************************************)
(* C13 amended: when the feature bind_by_move_pattern_guards is off, for   *)
(* every arm with a guard of every match each mutable borrow in the guard  *)
(* is reported (E0301) and each write is reported (E0302), in order, and   *)
(* nothing is reported for the other use-effects; when the feature is on,  *)
(* no guard is checked and neither E0301 nor E0302 is emitted.             *)
(***************************************************************************)
C13_GuardMutation ==
    MatchStarted =>
        IF ~features.bind_by_move_pattern_guards
        THEN MutationCodes = GuardCodes
        ELSE MutationCodes = <<>>

\* With the feature off, two arms with a guard that borrows mutably and
\* writes twice: each is reported for each guard.
C13_Witness ==
    /\ MatchStarted
    /\ ~features.bind_by_move_pattern_guards
    /\ Len(arms) = 2
    /\ arms[1].guard = BadGuard /\ arms[2].guard = BadGuard
    /\ MutationCodes = <<"E0301", "E0302", "E0302", "E0301", "E0302", "E0302">>

(***************************************************************************)
(* C16  While a body is visited, signalled_error starts as NoErrorsSeen,   *)
(* is changed only to SawSomeError and never back, and check_match returns *)
(* SawSomeError if and only if some match of the body has an arm with a    *)
(* guard, whether or not a diagnostic was emitted.                         *)
(***************************************************************************)
C16_FlagState ==
    /\ signalled_error \in {"NoErrorsSeen", "SawSomeError"}
    /\ pc = "entry" => signalled_error = "NoErrorsSeen"
    /\ signalled_error = "SawSomeError" <=> hist.guard
    /\ pc = "returned" =>
          /\ result = signalled_error
          /\ result = "SawSomeError" <=> hist.guard

C16_SignalledErrorIsGuardSeen ==
    /\ []C16_FlagState
    /\ [][signalled_error = "SawSomeError" => signalled_error' = "SawSomeError"]_vars

\* check_match returned SawSomeError for a body of two matches, and no
\* diagnostic was emitted for either.
C16_Witness ==
    /\ pc = "returned"
    /\ result = "SawSomeError"
    /\ nmatch = 2
    /\ ~hist.emitted

(***************************************************************************)
(* Two runs of check_arms, on arm lists that share their first arms.       *)
(***************************************************************************)
\* check_arms from the locals st to the end of its loops.
RECURSIVE check_arms(_, _, _)
check_arms(st, arms_, source_) ==
    IF CheckArmsDone(st, arms_) THEN st
    ELSE check_arms(CheckArmsStep(st, arms_, source_), arms_, source_)

PlainArm(p) == [pats |-> <<p>>, guard |-> NoGuard]

\* The arms shared by both runs are drawn from these patterns over Opt ...
MonoPats ==
    {HWild, HPath("Variant", 1), HTupleStruct(2, <<HWild>>),
     HTupleStruct(2, <<HPath("Variant", 1)>>)}

\* ... and each run goes on with one of these arm lists.
MonoSuffixes ==
    {<<>>,
     <<PlainArm(HWild)>>,
     <<PlainArm(HPath("Variant", 1))>>,
     <<PlainArm(HWild), PlainArm(HPath("Variant", 1))>>,
     <<PlainArm(HPath("Variant", 1)), PlainArm(HWild)>>,
     <<[pats |-> <<HTupleStruct(2, <<HWild>>)>>, guard |-> PlainGuard], PlainArm(HVar)>>}

InitMono ==
    /\ pc = "mono"
    /\ body_local = TRUE
    /\ features = [exhaustive_patterns |-> FALSE, bind_by_move_pattern_guards |-> FALSE]
    /\ signalled_error = "NoErrorsSeen"
    /\ result = ""
    /\ nmatch = 0
    /\ hist = [guard |-> FALSE, lowering_error |-> FALSE, emitted |-> FALSE]
    /\ scrut_ty = Opt(TRUE, FALSE)
    /\ source = "Normal"
    /\ diags = <<>> /\ legal = <<>> /\ have_errors = FALSE
    /\ ca = CheckArmsInit /\ ex = ExNone
    /\ uncovered = <<>>
    /\ \E n \in 0..MaxLegalPats :
         \E ps \in [1..n -> MonoPats], cuts \in [1..n -> BOOLEAN] :
           /\ n > 0 => cuts[1]
           /\ \E gs \in [1..NumArms(cuts) -> {NoGuard, PlainGuard}] :
                \E sa \in MonoSuffixes, sb \in MonoSuffixes :
                  /\ arms = MkArms(ps, cuts, gs) \o sa
                  /\ inlined_arms = InlineArms(MkArms(ps, cuts, gs) \o sa, Opt(TRUE, FALSE))
                  /\ mono = [arms |-> InlineArms(MkArms(ps, cuts, gs) \o sb, Opt(TRUE, FALSE)),
                             k |-> NumArms(cuts),
                             ca |-> CheckArmsInit]

\* check_arms on the first arm list.
MonoRunA ==
    /\ pc = "mono"
    /\ ca' = check_arms(ca, inlined_arms, source)
    /\ pc' = "monoB"
    /\ UNCHANGED <<body_local, features, signalled_error, result, nmatch, hist, scrut_ty,
                   arms, source, diags, legal, inlined_arms, have_errors, ex, mono, uncovered>>

\* check_arms on the second arm list.
MonoRunB ==
    /\ pc = "monoB"
    /\ mono' = [mono EXCEPT !.ca = check_arms(mono.ca, mono.arms, source)]
    /\ pc' = "monoDone"
    /\ UNCHANGED <<body_local, features, signalled_error, result, nmatch, hist, scrut_ty,
                   arms, source, diags, legal, inlined_arms, have_errors, ca, ex,
                   uncovered>>

NextMono == MonoRunA \/ MonoRunB

SpecMono == InitMono /\ [][NextMono]_vars

(***************************************************************************)
(* C4  Reachability monotonicity: on two arm lists that share their first  *)
(* k arms, check_arms gives the patterns of those k arms the same verdicts *)
(* and reports the same of them as unreachable, whatever follows them.     *)
(***************************************************************************)
\* What a run says of the first k arms: the verdicts and the diagnostics.
PrefixVerdicts(st, k) ==
    LET ts == SelectSeq(st.tests, LAMBDA t : t.i <= k)
    IN  [n \in 1..Len(ts) |-> <<ts[n].i, ts[n].j, ts[n].u>>]
PrefixDiags(st, k) == SelectSeq(st.diags, LAMBDA d : d.spans[1][1] <= k)

C4_PrefixVerdicts ==
    pc = "monoDone" =>
        /\ PrefixVerdicts(ca, mono.k) = PrefixVerdicts(mono.ca, mono.k)
        /\ PrefixDiags(ca, mono.k) = PrefixDiags(mono.ca, mono.k)
        /\ Len(PrefixVerdicts(ca, mono.k)) = Len(AllPos(SubSeq(arms, 1, mono.k)))

\* Two shared arms, the second reported unreachable in both runs, followed
\* by different arms on which the runs report differently.
C4_Witness ==
    /\ pc = "monoDone"
    /\ mono.k = 2
    /\ PrefixDiags(ca, mono.k) # <<>>
    /\ Len(inlined_arms) > mono.k /\ Len(mono.arms) > mono.k
    /\ inlined_arms # mono.arms
    /\ Len(ca.diags) # Len(mono.ca.diags)

(***************************************************************************)
(* The report of check_exhaustive applied to lists of witnesses.           *)
(***************************************************************************)
\* enum List { Nil, Cons(&List) }.  A record cannot hold itself: the type
\* of the field of Cons is List again, written out one level deep; the
\* report reads the def id of a type and the spans of its variants only.
ListInner == Adt("List", << <<>>, <<>> >>, TRUE, FALSE)
ListTy == Adt("List", << <<>>, <<RefTy(ListInner)>> >>, TRUE, FALSE)

\* Witnesses over List: Nil; Cons(_); Cons(&_); Cons(&Nil); Cons(&Cons(_));
\* _.
ReportPats ==
    {PVariant(ListTy, 1, <<>>),
     PVariant(ListTy, 2, <<PWild(RefTy(ListInner))>>),
     PVariant(ListTy, 2, <<PDeref(RefTy(ListInner), <<PWild(ListInner)>>)>>),
     PVariant(ListTy, 2, <<PDeref(RefTy(ListInner), <<PVariant(ListInner, 1, <<>>)>>)>>),
     PVariant(ListTy, 2,
              <<PDeref(RefTy(ListInner), <<PVariant(ListInner, 2, <<PWild(ListInner)>>)>>)>>),
     PWild(ListTy)}

\* A list of one to MaxWitnesses witnesses, no two the same.
InitReport ==
    /\ pc = "report"
    /\ body_local = TRUE
    /\ features = [exhaustive_patterns |-> FALSE, bind_by_move_pattern_guards |-> FALSE]
    /\ signalled_error = "NoErrorsSeen"
    /\ result = ""
    /\ nmatch = 0
    /\ hist = [guard |-> FALSE, lowering_error |-> FALSE, emitted |-> FALSE]
    /\ scrut_ty = ListTy
    /\ arms = <<>> /\ source = "Normal"
    /\ diags = <<>> /\ legal = <<>> /\ inlined_arms = <<>> /\ have_errors = FALSE
    /\ ca = CheckArmsInit /\ ex = ExNone
    /\ mono = MonoNone
    /\ \E n \in 1..MaxWitnesses :
         \E ws \in [1..n -> ReportPats] :
           /\ \A i \in 1..n : \A j \in 1..n : ws[i] = ws[j] => i = j
           /\ uncovered = ws

\* check_exhaustive reports the witnesses.
Report ==
    /\ pc = "report"
    /\ ex' = [ran |-> "exhaustive", matrix |-> <<>>,
              diags |-> <<ReportUncovered(scrut_ty, ScrutSpan, uncovered)>>]
    /\ pc' = "reported"
    /\ UNCHANGED <<body_local, features, signalled_error, result, nmatch, hist, scrut_ty,
                   arms, source, diags, legal, inlined_arms, have_errors, ca, mono,
                   uncovered>>

NextReport == Report

SpecReport == InitReport /\ [][NextReport]_vars

(***************************************************************************)
(* C14  joined_uncovered_patterns on n >= 1 witnesses renders, for n <= 3, *)
(* all n witnesses in their order, each quoted, none left out; for n >= 4  *)
(* the first three in order, each quoted, followed by the number n - 3 of  *)
(* the others and "more".                                                  *)
(***************************************************************************)
\* The patterns a string shows, in order, and the numbers it shows.
PatsOf(text) ==
    LET ts == SelectSeq(text, LAMBDA t : t.kind = "pat")
    IN  [k \in 1..Len(ts) |-> ts[k].pat]
NumsOf(text) ==
    LET ts == SelectSeq(text, LAMBDA t : t.kind = "num")
    IN  [k \in 1..Len(ts) |-> ts[k].num]
\* Every pattern shown stands between two backquotes.
EachQuoted(text) ==
    \A i \in 1..Len(text) :
        text[i].kind = "pat" =>
            /\ 1 < i /\ i < Len(text)
            /\ text[i - 1].kind = "lit" /\ text[i - 1].lit \in {"'", "', '", "' and '"}
            /\ text[i + 1].kind = "lit"
            /\ text[i + 1].lit \in {"'", "', '", "' and '", "' and "}

C14_JoinedUncovered ==
    pc = "reported" =>
        LET text == ex.diags[1].joined
            n == Len(uncovered)
        IN  /\ text = joined_uncovered_patterns(uncovered)
            /\ EachQuoted(text)
            /\ IF n <= 3
               THEN PatsOf(text) = uncovered /\ NumsOf(text) = <<>>
               ELSE /\ PatsOf(text) = SubSeq(uncovered, 1, 3)
                    /\ NumsOf(text) = <<n - 3>>
                    /\ SubSeq(text, Len(text) - 2, Len(text))
                          = <<Lit("' and "), Num(n - 3), Lit(" more")>>

\* Five witnesses: three are shown and "2 more".
C14_Witness ==
    /\ pc = "reported"
    /\ Len(uncovered) = 5
    /\ Len(PatsOf(ex.diags[1].joined)) = 3
    /\ NumsOf(ex.diags[1].joined) = <<2>>

(***************************************************************************)
(* C15  maybe_point_at_variant returns variant spans of which none appears *)
(* twice, for every list of witnesses, nested ones included, and           *)
(* check_exhaustive labels them "not covered" only when there are fewer    *)
(* than 4 witnesses.                                                       *)
(***************************************************************************)
\* The spans a diagnostic labels "not covered", in order.
NotCoveredLabels(d) ==
    LET ls == SelectSeq(d.labels, LAMBDA l : l.text = "not covered")
    IN  [k \in 1..Len(ls) |-> ls[k].span]

C15_VariantSpansDistinct ==
    pc = "reported" =>
        LET sps == maybe_point_at_variant(peel_refs(scrut_ty), uncovered)
        IN  /\ \A i \in 1..Len(sps) : \A j \in 1..Len(sps) : sps[i] = sps[j] => i = j
            /\ NotCoveredLabels(ex.diags[1])
                  = IF Len(uncovered) < 4 THEN sps ELSE <<>>

====
